---- MODULE Spec2Model ----
(***************************************************************************)
(* The IoT telemetry pipeline of this repository: the MQTT -> PostgreSQL   *)
(* bridge (dados/data_ingestor.py and its single-value revision            *)
(* dados/main.py) and the Dash dashboard (dados/dashboard.py) that polls   *)
(* the table the bridge fills.                                             *)
(*                                                                         *)
(* The bridge is single threaded: paho's loop_forever runs one callback to *)
(* its end before the next, so each callback is one action.  The dashboard *)
(* is another process; one refresh (one run of atualizar_componentes) is   *)
(* one action, and it reads only committed rows.                           *)
(***************************************************************************)
EXTENDS Integers, Sequences, FiniteSets, TLC

\* ------------------------------------------------------------------ bounds
\* Messages the broker delivers in one run of the bridge.
MaxMsgs == 2
\* CONNACK events (first connection and reconnections) in one run.
MaxConnects == 2

\* --------------------------------------------------------------- payloads
Keys == {"temperatura", "umidade", "luminosidade"}

\* A JSON value under a key: a number, a string that float() parses, a string
\* that it does not, null, or no such key in the object.
Num(v) == [t |-> "num", v |-> v]
NumStr(v) == [t |-> "numstr", v |-> v]
Str == [t |-> "str", v |-> 0]
Null == [t |-> "null", v |-> 0]
Absent == [t |-> "absent", v |-> 0]

NoObj == [k \in Keys |-> Absent]

\* The bytes of a message, by what decode / json.loads / float make of them:
\*   badutf8  bytes that are not UTF-8
\*   garbage  text that is neither JSON nor a number
\*   number   text of one number ("42"): a JSON scalar, and a float() literal
\*   array    text of a JSON array
\*   object   text of a JSON object, obj giving its three keys
Scalar(kind, v) == [kind |-> kind, num |-> v, obj |-> NoObj]
Object(t, u, l) ==
    [kind |-> "object", num |-> 0,
     obj |-> [k \in Keys |-> CASE k = "temperatura" -> t
                               [] k = "umidade" -> u
                               [] OTHER -> l]]

Reading(v) == Object(Num(v), Num(v + 1), Num(v + 2))
ReadingStr(v) == Object(NumStr(v), Num(v + 1), NumStr(v + 2))
Defect(k, d) == [Reading(1) EXCEPT !.obj[k] = d]

\* The readings sent: the reading of seed v is (v, v + 1, v + 2), so that no
\* two columns of a row and no two rows of different seeds agree.
Seeds == {1, 2}

\* The payloads delivered to data_ingestor.py: every way its parsing can end,
\* each key missing in turn, and well-formed readings.
JsonPayloads ==
    {Scalar("badutf8", 0), Scalar("garbage", 0), Scalar("array", 0), Scalar("number", 1)}
    \cup {Reading(v) : v \in Seeds}
    \cup {ReadingStr(1)}
    \cup {Defect(k, Absent) : k \in Keys}
    \cup {Defect("umidade", Str), Defect("luminosidade", Null)}

\* The payloads delivered to main.py, which expects one number as text.
FloatPayloads ==
    {Scalar("badutf8", 0), Scalar("garbage", 0), Reading(1)}
    \cup {Scalar("number", v) : v \in Seeds}

Payloads(sc) == IF sc = "data_ingestor" THEN JsonPayloads ELSE FloatPayloads

\* What the database does to one insert: nothing wrong, an error raised by
\* conn.cursor(), by cursor.execute() or by conn.commit(), or Ctrl+C arriving
\* between execute and commit.
Faults == {"none", "cursor", "execute", "commit", "interrupt"}

\* ------------------------------------------------------------------ state
VARIABLES
    script,     \* which bridge runs: "data_ingestor" or "main"
    pc,         \* position of the bridge's __main__ block
    db_conn,    \* the module-level db_conn: "None" or the connection's id
    userdata,   \* the client's userdata['db_conn'] ("None" before user_data_set)
    mqtt,       \* the MQTT client: created, connected, subscribed, CONNACKs seen,
                \* subscribe calls made, rc of the last CONNACK (-1: none yet)
    conn,       \* the psycopg2 connection: state, pending rows, open cursors, closes
    db,         \* the database server: the two tables, the id sequence, the clock
    trace,      \* the library calls the last step made, in order
    received,   \* how many messages were delivered to on_message
    msg,        \* the last message delivered, with what the environment did to it
    branch,     \* how the last on_message ended
    exit,       \* how the script ended
    view        \* what the dashboard's last refresh returned

vars == <<script, pc, db_conn, userdata, mqtt, conn, db, trace, received, msg, branch, exit, view>>

\* --------------------------------------------------- the database driver
\* A working record w = [conn, db, trace, delivery] is threaded through the
\* calls of one handler; each call returns [w |-> the state after it, ok |-> it
\* did not raise].  delivery is the arrival number of the message handled.

Called(w, name) == [w EXCEPT !.trace = Append(@, name)]

\* The connection can be used: it was neither lost nor closed.
Usable(c) == c.state = "open"

\* conn.cursor()
conn_cursor(w, fault) ==
    LET w1 == Called(w, "cursor")
    IN  IF Usable(w.conn) /\ fault # "cursor"
        THEN [w |-> [w1 EXCEPT !.conn.cursors = @ + 1], ok |-> TRUE]
        ELSE [w |-> w1, ok |-> FALSE]

\* Mutant of SensorRow: the tuple's first two values land in each other's column.
SensorRowSwapped(id, data_hora, delivery, params) ==
    [id |-> id, data_hora |-> data_hora, from |-> delivery,
     temperatura |-> params[2], umidade |-> params[1], luminosidade |-> params[3]]

\* INSERT INTO leituras_sensores (temperatura, umidade, luminosidade)
\* VALUES (%s, %s, %s) with the tuple (temperatura, umidade, luminosidade);
\* id and data_hora are not in the statement: the table's defaults fill them.
\* from is no column: it keeps the arrival number of the message the row is of.
SensorRow(id, data_hora, delivery, params) ==
    [id |-> id, data_hora |-> data_hora, from |-> delivery,
     temperatura |-> params[1], umidade |-> params[2], luminosidade |-> params[3]]

\* INSERT INTO leituras_luminosidade (valor) VALUES (%s) with the tuple (valor,)
LuzRow(id, data_hora, delivery, params) ==
    [id |-> id, data_hora |-> data_hora, from |-> delivery, valor |-> params[1]]

\* Mutant of cursor_execute: the connection is in autocommit mode, the row is
\* in the table as soon as the statement ran.
cursor_execute_autocommit(w, sc, params, fault) ==
    LET w1 == Called(w, "execute")
        row == IF sc = "data_ingestor"
               THEN SensorRow(w.db.nextId, w.db.clock, w.delivery, params)
               ELSE LuzRow(w.db.nextId, w.db.clock, w.delivery, params)
    IN  IF Usable(w.conn) /\ fault # "execute"
        THEN [w |-> IF sc = "data_ingestor"
                    THEN [w1 EXCEPT !.db.leituras_sensores = Append(@, row),
                                    !.db.nextId = @ + 1, !.db.clock = @ + 1]
                    ELSE [w1 EXCEPT !.db.leituras_luminosidade = Append(@, row),
                                    !.db.nextId = @ + 1, !.db.clock = @ + 1],
              ok |-> TRUE]
        ELSE [w |-> w1, ok |-> FALSE]

\* cursor.execute(sql, params): the row joins the open transaction.
cursor_execute(w, sc, params, fault) ==
    LET w1 == Called(w, "execute")
        row == IF sc = "data_ingestor"
               THEN SensorRow(w.db.nextId, w.db.clock, w.delivery, params)
               ELSE LuzRow(w.db.nextId, w.db.clock, w.delivery, params)
    IN  IF Usable(w.conn) /\ fault # "execute"
        THEN [w |-> [w1 EXCEPT !.conn.pending = Append(@, row),
                               !.db.nextId = @ + 1,
                               !.db.clock = @ + 1],
              ok |-> TRUE]
        ELSE [w |-> w1, ok |-> FALSE]

\* Mutant of conn_commit: the committed rows go before the rows of the table.
conn_commit_before(w, sc, fault) ==
    LET w1 == Called(w, "commit")
    IN  IF Usable(w.conn) /\ fault # "commit"
        THEN [w |-> IF sc = "data_ingestor"
                    THEN [w1 EXCEPT !.db.leituras_sensores = w.conn.pending \o @,
                                    !.conn.pending = <<>>]
                    ELSE [w1 EXCEPT !.db.leituras_luminosidade = w.conn.pending \o @,
                                    !.conn.pending = <<>>],
              ok |-> TRUE]
        ELSE [w |-> w1, ok |-> FALSE]

\* conn.commit(): the transaction's rows become rows of the table.
conn_commit(w, sc, fault) ==
    LET w1 == Called(w, "commit")
    IN  IF Usable(w.conn) /\ fault # "commit"
        THEN [w |-> IF sc = "data_ingestor"
                    THEN [w1 EXCEPT !.db.leituras_sensores = @ \o w.conn.pending,
                                    !.conn.pending = <<>>]
                    ELSE [w1 EXCEPT !.db.leituras_luminosidade = @ \o w.conn.pending,
                                    !.conn.pending = <<>>],
              ok |-> TRUE]
        ELSE [w |-> w1, ok |-> FALSE]

\* conn.rollback(): the transaction's rows are dropped; on a connection that
\* was lost or closed it raises.
conn_rollback(w) ==
    LET w1 == Called(w, "rollback")
    IN  IF Usable(w.conn)
        THEN [w |-> [w1 EXCEPT !.conn.pending = <<>>], ok |-> TRUE]
        ELSE [w |-> w1, ok |-> FALSE]

\* Mutant of cursor_close: the cursor stays open.
cursor_close_leak(w) == Called(w, "cursor_close")

\* cursor.close()
cursor_close(w) ==
    [Called(w, "cursor_close") EXCEPT !.conn.cursors = @ - 1]

\* db_conn.close(): the server drops whatever the transaction still held.
conn_close(w) ==
    [Called(w, "close") EXCEPT !.conn.state = "closed", !.conn.pending = <<>>,
                               !.conn.closes = @ + 1]

\* ------------------------------------------------------- inserir_leitura
\* Mutant of inserir_except: the except clause prints and does not roll back.
inserir_except_norollback(w, hasCursor) ==
    [w |-> IF hasCursor THEN cursor_close(w) ELSE w, exc |-> "none"]

\* The except clause of inserir_leitura followed by its finally clause;
\* hasCursor tells whether conn.cursor() had returned.
inserir_except(w, hasCursor) ==
    LET r == conn_rollback(w)
    IN  [w |-> IF hasCursor THEN cursor_close(r.w) ELSE r.w,
         exc |-> IF r.ok THEN "none" ELSE "Error"]

\* inserir_leitura(conn, ...): [w |-> the state after it, exc |-> what it
\* raised: "none", "Error" (raised by the rollback) or "KeyboardInterrupt"].
inserir_leitura(w, sc, params, fault) ==
    LET c == conn_cursor(w, fault)
    IN  IF ~c.ok THEN inserir_except(c.w, FALSE)
        ELSE LET e == cursor_execute(c.w, sc, params, fault)
             IN  IF ~e.ok THEN inserir_except(e.w, TRUE)
                 ELSE IF fault = "interrupt"
                 THEN [w |-> cursor_close(e.w), exc |-> "KeyboardInterrupt"]
                 ELSE LET m == conn_commit(e.w, sc, fault)
                      IN  IF ~m.ok THEN inserir_except(m.w, TRUE)
                          ELSE [w |-> cursor_close(m.w), exc |-> "none"]

\* ------------------------------------------------------------ on_message
\* msg.payload.decode('utf-8') raises UnicodeDecodeError on bytes that are
\* not UTF-8.
Decodes(p) == p.kind # "badutf8"

\* float(x) of a JSON value: [ok, v, exc].
float_of(x) ==
    CASE x.t \in {"num", "numstr"} -> [ok |-> TRUE, v |-> x.v, exc |-> "none"]
      [] x.t = "str" -> [ok |-> FALSE, v |-> 0, exc |-> "ValueError"]
      [] OTHER -> [ok |-> FALSE, v |-> 0, exc |-> "TypeError"]

\* float(dados_sensores[key]) with dados_sensores = json.loads(payload_str).
field_of(p, key) ==
    CASE p.kind = "garbage" -> [ok |-> FALSE, v |-> 0, exc |-> "JSONDecodeError"]
      [] p.kind \in {"number", "array"} -> [ok |-> FALSE, v |-> 0, exc |-> "TypeError"]
      [] p.obj[key].t = "absent" -> [ok |-> FALSE, v |-> 0, exc |-> "KeyError"]
      [] OTHER -> float_of(p.obj[key])

\* The try block of data_ingestor.on_message up to the call of
\* inserir_leitura: the three conversions in the order of the code, ending at
\* the first that raises.
parse_json(p) ==
    LET temp == field_of(p, "temperatura")
        umid == field_of(p, "umidade")
        lum == field_of(p, "luminosidade")
    IN  IF ~temp.ok THEN [ok |-> FALSE, args |-> <<>>, exc |-> temp.exc]
        ELSE IF ~umid.ok THEN [ok |-> FALSE, args |-> <<>>, exc |-> umid.exc]
        ELSE IF ~lum.ok THEN [ok |-> FALSE, args |-> <<>>, exc |-> lum.exc]
        ELSE [ok |-> TRUE, args |-> <<temp.v, umid.v, lum.v>>, exc |-> "none"]

\* The try block of main.on_message: valor_luminosidade = float(payload_str).
parse_float(p) ==
    IF p.kind = "number"
    THEN [ok |-> TRUE, args |-> <<p.num>>, exc |-> "none"]
    ELSE [ok |-> FALSE, args |-> <<>>, exc |-> "ValueError"]

parse_payload(sc, p) == IF sc = "data_ingestor" THEN parse_json(p) ELSE parse_float(p)

\* The except clauses of on_message: every Exception is caught and printed.
\* main.on_message has no JSONDecodeError and KeyError clauses.
except_clause(sc, exc) ==
    CASE exc = "ValueError" -> "ValueError"
      [] exc \in {"JSONDecodeError", "KeyError"} /\ sc = "data_ingestor" -> exc
      [] OTHER -> "Exception"

\* on_message(client, userdata, msg): [w, branch, raised].  branch is
\* "inserted" when inserir_leitura returned, the except clause that caught an
\* exception, or "raised" when an exception left on_message.
on_message(w, sc, p, fault) ==
    IF ~Decodes(p)
    THEN [w |-> w, branch |-> "raised", raised |-> "UnicodeDecodeError"]
    ELSE LET a == parse_payload(sc, p)
         IN  IF ~a.ok
             THEN [w |-> w, branch |-> except_clause(sc, a.exc), raised |-> "none"]
             ELSE LET r == inserir_leitura(w, sc, a.args, fault)
                  IN  CASE r.exc = "none" ->
                             [w |-> r.w, branch |-> "inserted", raised |-> "none"]
                        [] r.exc = "KeyboardInterrupt" ->
                             [w |-> r.w, branch |-> "raised", raised |-> "KeyboardInterrupt"]
                        [] OTHER ->
                             [w |-> r.w, branch |-> except_clause(sc, r.exc), raised |-> "none"]


\* ------------------------------------------------------------- the bridge
NoMsg == [payload |-> Scalar("none", 0), fault |-> "none", lost |-> FALSE]

NoView == [kind |-> "none", after |-> "none"]

Init ==
    /\ script \in {"data_ingestor", "main"}
    /\ pc = "start"
    /\ db_conn = "None"
    /\ userdata = "None"
    /\ mqtt = [client |-> FALSE, connected |-> FALSE, subscribed |-> FALSE,
               connects |-> 0, subs |-> 0, rc |-> -1]
    /\ conn = [id |-> "None", state |-> "none", pending |-> <<>>, cursors |-> 0,
               closes |-> 0]
    /\ db = [leituras_sensores |-> <<>>, leituras_luminosidade |-> <<>>,
             nextId |-> 1, clock |-> 1]
    /\ trace = <<>>
    /\ received = 0
    /\ msg = NoMsg
    /\ branch = "none"
    /\ exit = "none"
    /\ view = NoView

\* The state a step starts from, with an empty trace.
World == [conn |-> conn, db |-> db, trace |-> <<>>, delivery |-> received + 1]

\* conectar_banco(): psycopg2.connect returns a connection, or raises
\* OperationalError and None is returned.
conectar_banco(w, ok) ==
    LET w1 == Called(w, "psycopg2.connect")
    IN  IF ok
        THEN [w |-> [w1 EXCEPT !.conn = [id |-> "conn1", state |-> "open",
                                         pending |-> <<>>, cursors |-> 0,
                                         closes |-> 0]],
              ret |-> "conn1"]
        ELSE [w |-> w1, ret |-> "None"]

\* db_conn = conectar_banco()
ConectarBanco ==
    /\ pc = "start"
    /\ \E ok \in BOOLEAN :
         LET r == conectar_banco(World, ok)
         IN  /\ db_conn' = r.ret
             /\ conn' = r.w.conn
             /\ trace' = r.w.trace
    /\ pc' = "main"
    /\ UNCHANGED <<script, userdata, mqtt, db, received, msg, branch, exit, view>>

\* Mutant of Proceeds: the __main__ block goes on whatever conectar_banco returned.
ProceedsAlways(c) == TRUE

\* `if db_conn:` of the __main__ block.
Proceeds(c) == c # "None"

\* Mutant of main_finally: the connection is left open.
main_finally_noclose(w) == w

\* The finally clause of the __main__ block: db_conn.close().
main_finally(w) == conn_close(w)

\* The __main__ block after conectar_banco, up to the entry of loop_forever:
\* the client is created, userdata set, and client.connect either returns
\* (the loop starts) or raises ConnectionRefusedError or another OSError (the
\* except clause prints, the finally clause closes the connection).
MainBlock ==
    /\ pc = "main"
    /\ IF ~Proceeds(db_conn)
       THEN /\ pc' = "done"
            /\ exit' = "db_failed"
            /\ trace' = <<>>
            /\ UNCHANGED <<userdata, mqtt, conn, db>>
       ELSE \E outcome \in {"ok", "ConnectionRefusedError", "OSError"} :
              LET w1 == Called(Called(World, "mqtt.Client"), "client.connect")
                  w2 == IF outcome = "ok" THEN w1 ELSE main_finally(w1)
              IN  /\ userdata' = db_conn
                  /\ mqtt' = [mqtt EXCEPT !.client = TRUE]
                  /\ conn' = w2.conn
                  /\ db' = w2.db
                  /\ trace' = w2.trace
                  /\ pc' = IF outcome = "ok" THEN "loop" ELSE "done"
                  /\ exit' = IF outcome = "ok" THEN exit ELSE outcome
    /\ UNCHANGED <<script, db_conn, received, msg, branch, view>>

\* Mutant of on_connect: it subscribes whatever the return code.
on_connect_always(m, rc) ==
    [m EXCEPT !.connected = (rc = 0), !.subscribed = (rc = 0), !.subs = @ + 1]

\* on_connect(client, userdata, flags, rc): subscribes when rc is 0.
on_connect(m, rc) ==
    IF rc = 0
    THEN [m EXCEPT !.connected = TRUE, !.subscribed = TRUE, !.subs = @ + 1]
    ELSE m

\* A CONNACK arrives inside loop_forever (the first connection, or a
\* reconnection the loop made): rc 0 accepts, rc 5 refuses.
OnConnect ==
    /\ pc = "loop"
    /\ ~mqtt.connected
    /\ mqtt.connects < MaxConnects
    /\ \E rc \in {0, 5} :
         /\ mqtt' = on_connect([mqtt EXCEPT !.connects = @ + 1, !.rc = rc], rc)
         /\ trace' = IF mqtt'.subs > mqtt.subs THEN <<"client.subscribe">> ELSE <<>>
    /\ UNCHANGED <<script, pc, db_conn, userdata, conn, db, received, msg, branch, exit, view>>

\* The broker connection drops; the session's subscription goes with it.
Disconnect ==
    /\ pc = "loop"
    /\ mqtt.connected
    /\ mqtt' = [mqtt EXCEPT !.connected = FALSE, !.subscribed = FALSE]
    /\ trace' = <<>>
    /\ UNCHANGED <<script, pc, db_conn, userdata, conn, db, received, msg, branch, exit, view>>

\* What the database does to the insert of one delivery.  It is not read when
\* the payload never reaches inserir_leitura.
Outcomes(sc, p) ==
    IF Decodes(p) /\ parse_payload(sc, p).ok THEN Faults ELSE {"none"}

\* A message arrives on the subscribed topic: on_message runs to its end.  An
\* exception that leaves it leaves loop_forever too: KeyboardInterrupt is
\* caught by the __main__ block, anything else is not, and either way the
\* finally clause closes the connection and the script ends.
OnMessage ==
    /\ pc = "loop"
    /\ mqtt.subscribed
    /\ received < MaxMsgs
    /\ userdata = conn.id
    /\ \E p \in Payloads(script) :
         \E fault \in Outcomes(script, p) :
           LET r == on_message(World, script, p, fault)
               w1 == IF r.raised = "none" THEN r.w ELSE main_finally(r.w)
           IN  /\ msg' = [payload |-> p, fault |-> fault, lost |-> conn.state = "lost"]
               /\ conn' = w1.conn
               /\ db' = w1.db
               /\ trace' = w1.trace
               /\ branch' = r.branch
               /\ pc' = IF r.raised = "none" THEN "loop" ELSE "done"
               /\ exit' = IF r.raised = "none" THEN exit ELSE r.raised
    /\ received' = received + 1
    /\ UNCHANGED <<script, db_conn, userdata, mqtt, view>>

\* The database connection is lost while the loop runs (server restart,
\* network): the server drops the open transaction.
ConnLost ==
    /\ pc = "loop"
    /\ conn.state = "open"
    /\ conn' = [conn EXCEPT !.state = "lost", !.pending = <<>>]
    /\ trace' = <<>>
    /\ UNCHANGED <<script, pc, db_conn, userdata, mqtt, db, received, msg, branch, exit, view>>

\* Ctrl+C while loop_forever waits: except KeyboardInterrupt, then finally.
KeyboardInterrupt ==
    /\ pc = "loop"
    /\ LET w1 == main_finally(World)
       IN  /\ conn' = w1.conn
           /\ db' = w1.db
           /\ trace' = w1.trace
    /\ pc' = "done"
    /\ exit' = "KeyboardInterrupt"
    /\ UNCHANGED <<script, db_conn, userdata, mqtt, received, msg, branch, view>>

\* ---------------------------------------------------------- the dashboard
\* LIMIT 200 of the query of buscar_dados.
LIMIT == 200
\* detectar_anomalias fits its model only from this many rows on.
MinAnomalia == 2
\* prever_proxima_temperatura forecasts only from this many rows on.
MinPrever == 10

\* criar_engine_banco(): the engine, or None when create_engine raised.
criar_engine_banco(ok) == IF ok THEN "engine" ELSE "None"

\* ORDER BY data_hora DESC: a stays before b.  SQL leaves the order of rows
\* with equal data_hora open; tie is the order the server happens to give them.
OrderedBefore(a, b, tie) ==
    \/ a.data_hora > b.data_hora
    \/ /\ a.data_hora = b.data_hora
       /\ IF tie = "asc" THEN a.id < b.id ELSE a.id > b.id

\* Mutant of read_sql_query: the query keeps the most recent row alone.
read_sql_query_limit_1(tbl, tie) ==
    LET sorted == SortSeq(tbl, LAMBDA a, b : OrderedBefore(a, b, tie))
    IN  SubSeq(sorted, 1, IF Len(sorted) < 1 THEN Len(sorted) ELSE 1)

\* SELECT ... FROM leituras_sensores ORDER BY data_hora DESC LIMIT 200
read_sql_query(tbl, tie) ==
    LET sorted == SortSeq(tbl, LAMBDA a, b : OrderedBefore(a, b, tie))
    IN  SubSeq(sorted, 1, IF Len(sorted) < LIMIT THEN Len(sorted) ELSE LIMIT)

\* Mutant of Reversed: the frame is returned as the query gave it.
NotReversed(df) == df

\* df.iloc[::-1].reset_index(drop=True)
Reversed(df) == [i \in 1..Len(df) |-> df[Len(df) + 1 - i]]

\* buscar_dados(engine): the frame, as the sequence of its rows; the empty
\* frame when there is no engine or the query raises.
buscar_dados(engine, tbl, queryOk, tie) ==
    IF engine = "None" THEN <<>>
    ELSE IF ~queryOk THEN <<>>
    ELSE Reversed(read_sql_query(tbl, tie))

\* The fitted IsolationForest, as far as the dashboard reads it: predict is a
\* function of a row's features.  The models considered flag a row by its
\* temperature alone, at or above a threshold.
Predict(row, th) == IF row.temperatura >= th THEN -1 ELSE 1

\* detectar_anomalias(df): the frame with its column 'anomalia'.
detectar_anomalias(df, th) ==
    IF Len(df) < MinAnomalia
    THEN [i \in 1..Len(df) |-> [row |-> df[i], anomalia |-> 1]]
    ELSE [i \in 1..Len(df) |-> [row |-> df[i], anomalia |-> Predict(df[i], th)]]

\* Mutant of prever_proxima_temperatura: ten rows are still too few.
prever_acima_do_minimo(df) ==
    IF Len(df) <= MinPrever
    THEN [text |-> "Dados insuficientes para prever", fitted |-> 0, proximo_index |-> 0]
    ELSE [text |-> "previsao", fitted |-> Len(df), proximo_index |-> Len(df)]

\* prever_proxima_temperatura(df): the warning text, or the forecast of the
\* regression fitted on the indexes 0..len(df)-1 for the index len(df).
prever_proxima_temperatura(df) ==
    IF Len(df) < MinPrever
    THEN [text |-> "Dados insuficientes para prever", fitted |-> 0, proximo_index |-> 0]
    ELSE [text |-> "previsao", fitted |-> Len(df), proximo_index |-> Len(df)]

\* Mutant of Flagged: the comparison is inverted.
FlaggedOthers(df, flag) ==
    LET sel == SelectSeq(df, LAMBDA x : x.anomalia # flag)
    IN  [i \in 1..Len(sel) |-> sel[i].row]

\* df[df['anomalia'] == flag], the rows alone.
Flagged(df, flag) ==
    LET sel == SelectSeq(df, LAMBDA x : x.anomalia = flag)
    IN  [i \in 1..Len(sel) |-> sel[i].row]

\* Mutant of Empty: a frame of one row counts as empty too.
EmptyOffByOne(df) == Len(df) <= 1

\* `if df_raw.empty:` of atualizar_componentes.
Empty(df) == Len(df) = 0

Placeholder == "Aguardando dados..."

\* atualizar_componentes(n): the six outputs (the three figures share their
\* traces' rows, so they are given once), with what the refresh read: the
\* engine, how the query ended, the frame, how many rows were stored, and the
\* column 'anomalia' that detectar_anomalias gave the frame (flags).
atualizar_componentes(tbl, engineOk, queryOk, tie, th) ==
    LET engine == criar_engine_banco(engineOk)
        df_raw == buscar_dados(engine, tbl, queryOk, tie)
    IN  IF Empty(df_raw)
        THEN [kind |-> "placeholder", after |-> "none", stored |-> Len(tbl),
              engine |-> engine,
              query |-> IF engine = "None" THEN "skipped"
                        ELSE IF queryOk THEN "ok" ELSE "raised",
              df |-> df_raw, flags |-> <<>>,
              figures |-> Placeholder, normal |-> <<>>, anomalia |-> <<>>,
              has_anomalia_trace |-> FALSE,
              tabela_estatisticas |-> Placeholder, ultima |-> <<>>,
              tabela_anomalias |-> <<>>,
              card |-> [text |-> Placeholder, fitted |-> 0, proximo_index |-> 0],
              models |-> {}]
        ELSE LET df == detectar_anomalias(df_raw, th)
                 df_anomalias == Flagged(df, -1)
             IN  [kind |-> "rendered", after |-> "none", stored |-> Len(tbl),
                  engine |-> engine, query |-> "ok",
                  df |-> df_raw, flags |-> [i \in 1..Len(df) |-> df[i].anomalia],
                  figures |-> "series", normal |-> Flagged(df, 1),
                  anomalia |-> df_anomalias,
                  has_anomalia_trace |-> ~Empty(df_anomalias),
                  tabela_estatisticas |-> "Estatística", ultima |-> <<df_raw[Len(df_raw)]>>,
                  tabela_anomalias |-> df_anomalias,
                  card |-> prever_proxima_temperatura(df_raw),
                  models |-> (IF Len(df_raw) < MinAnomalia THEN {} ELSE {"IsolationForest"})
                             \cup (IF Len(df_raw) < MinPrever THEN {} ELSE {"LinearRegression"})]

\* The thresholds of the anomaly models considered: every row is an anomaly
\* (1), the rows of temperature 2 and more are, no row is (above them all).
Thresholds == {1, 2, 1000}

\* What the environment decides for one refresh: whether create_engine and
\* the query succeed, the order the server gives rows of equal data_hora, and
\* the anomaly model's threshold.  What a failed refresh never reads is fixed.
RefreshInputs ==
    {[engineOk |-> FALSE, queryOk |-> FALSE, tie |-> "asc", th |-> 0],
     [engineOk |-> TRUE, queryOk |-> FALSE, tie |-> "asc", th |-> 0]}
    \cup [engineOk : {TRUE}, queryOk : {TRUE}, tie : {"asc", "desc"}, th : Thresholds]

\* The dcc.Interval timer fires: one refresh of the page, reading the rows
\* committed to leituras_sensores.  view.after keeps what the page showed
\* before.
AtualizarComponentes ==
    /\ \E in \in RefreshInputs :
         view' = [atualizar_componentes(db.leituras_sensores, in.engineOk, in.queryOk,
                                        in.tie, in.th)
                  EXCEPT !.after = view.kind]
    /\ UNCHANGED <<script, pc, db_conn, userdata, mqtt, conn, db, trace, received, msg,
                   branch, exit>>

Next ==
    \/ ConectarBanco
    \/ MainBlock
    \/ OnConnect
    \/ Disconnect
    \/ OnMessage
    \/ ConnLost
    \/ KeyboardInterrupt

\* The bridge alone.
Spec == Init /\ [][Next]_vars

\* The bridge and the dashboard side by side, on a table that starts empty.
NextPipeline == Next \/ AtualizarComponentes

SpecPipeline == Init /\ [][NextPipeline]_vars

\* ------------------------------------------- the dashboard on a stored table
\* The table outlives the bridge: the dashboard also runs against the rows
\* earlier runs left, with no bridge running.  The stored tables have the sizes
\* around the three thresholds of dashboard.py and these data_hora columns:
\*   rising   one row per instant, in the order of the ids
\*   paired   two rows per instant
\*   flat     every row at the same instant
\*   falling  the later the id, the earlier the instant
Around == 1

StoredSizes ==
    {0} \cup UNION {(c - Around)..(c + Around) : c \in {MinAnomalia, MinPrever, LIMIT}}

Stamp(i, n, pat) ==
    CASE pat = "rising" -> i
      [] pat = "paired" -> (i + 1) \div 2
      [] pat = "flat" -> 1
      [] OTHER -> n + 1 - i

StoredTable(n, pat) ==
    [i \in 1..n |-> SensorRow(i, Stamp(i, n, pat), 0, <<1 + (i % 3), 2 + (i % 2), 3>>)]

InitDash ==
    /\ script = "data_ingestor"
    /\ pc = "start"
    /\ db_conn = "None"
    /\ userdata = "None"
    /\ mqtt = [client |-> FALSE, connected |-> FALSE, subscribed |-> FALSE,
               connects |-> 0, subs |-> 0, rc |-> -1]
    /\ conn = [id |-> "None", state |-> "none", pending |-> <<>>, cursors |-> 0,
               closes |-> 0]
    /\ \E n \in StoredSizes, pat \in {"rising", "paired", "flat", "falling"} :
         db = [leituras_sensores |-> StoredTable(n, pat), leituras_luminosidade |-> <<>>,
               nextId |-> n + 1, clock |-> n + 1]
    /\ trace = <<>>
    /\ received = 0
    /\ msg = NoMsg
    /\ branch = "none"
    /\ exit = "none"
    /\ view = NoView

NextDash == AtualizarComponentes

SpecDash == InitDash /\ [][NextDash]_vars

\* ================================================================ claims
\* The table the running script fills.
Filled == IF script = "data_ingestor" THEN db.leituras_sensores ELSE db.leituras_luminosidade

\* The step delivers a message to on_message.
Delivery == received' = received + 1

\* The payload is a JSON object whose three values convert to numbers.
WellFormedJson(p) ==
    /\ p.kind = "object"
    /\ \A k \in Keys : p.obj[k].t \in {"num", "numstr"}

\* The payload is what the running script takes for a reading.
WellFormed(sc, p) == IF sc = "data_ingestor" THEN WellFormedJson(p) ELSE p.kind = "number"

\* The payload is malformed in one of the ways C3 lists: not valid JSON, a key
\* missing, a value that is no number (data_ingestor.py); not a number (main.py).
Malformed(sc, p) ==
    IF sc = "data_ingestor"
    THEN \/ p.kind \in {"badutf8", "garbage"}
         \/ /\ p.kind = "object"
            /\ \E k \in Keys : p.obj[k].t \in {"absent", "str", "null"}
    ELSE p.kind # "number"

\* The database did nothing wrong to the insert of message m.
InsertSucceeds(m) == m.fault = "none" /\ ~m.lost

\* The insert of message m failed at one of its three steps: the database
\* raised there, or the connection was lost before (conn.cursor() raises then).
InsertFails(m) == m.lost \/ m.fault \in {"cursor", "execute", "commit"}

Made(t, name) == \E i \in 1..Len(t) : t[i] = name

Last(s) == s[Len(s)]

\* C1: a message of data_ingestor.py with a well-formed payload whose insert
\* succeeds commits exactly one row, appended to leituras_sensores, and the
\* row's temperatura, umidade and luminosidade are the payload's values of
\* those keys, each in its own column.
C1_RowHoldsReceivedValues ==
    [][(Delivery /\ script = "data_ingestor" /\ WellFormedJson(msg'.payload)
            /\ InsertSucceeds(msg'))
        => /\ Len(db'.leituras_sensores) = Len(db.leituras_sensores) + 1
           /\ SubSeq(db'.leituras_sensores, 1, Len(db.leituras_sensores)) = db.leituras_sensores
           /\ Last(db'.leituras_sensores).temperatura = msg'.payload.obj["temperatura"].v
           /\ Last(db'.leituras_sensores).umidade = msg'.payload.obj["umidade"].v
           /\ Last(db'.leituras_sensores).luminosidade = msg'.payload.obj["luminosidade"].v
           /\ Made(trace', "commit")]_vars

\* C1 witness: the reading (2, 3, 4) was delivered, its insert succeeded, and
\* the last row of leituras_sensores holds 2, 3, 4 in that column order.
C1_Witness ==
    /\ script = "data_ingestor"
    /\ msg.payload = Reading(2)
    /\ InsertSucceeds(msg)
    /\ branch = "inserted"
    /\ Len(db.leituras_sensores) >= 1
    /\ Last(db.leituras_sensores).temperatura = 2
    /\ Last(db.leituras_sensores).umidade = 3
    /\ Last(db.leituras_sensores).luminosidade = 4

\* C2: the rows of the table lie in the order their messages arrived: each
\* row is of a message delivered so far, and of two rows the earlier one in
\* the table (lower position, lower id) is of the message that arrived first.
C2_RowsInArrivalOrder ==
    /\ \A i \in 1..Len(Filled) : Filled[i].from \in 1..received
    /\ \A i, j \in 1..Len(Filled) :
         i < j => /\ Filled[i].from < Filled[j].from
                  /\ Filled[i].id < Filled[j].id

\* C2 witness: two messages led to two committed rows.
C2_Witness ==
    /\ Len(Filled) = 2
    /\ Filled[1].from = 1
    /\ Filled[2].from = 2

\* C3: a malformed message is ignored: its handling makes no execute, commit
\* or rollback, leaves the database as it was, and leaves the bridge in its
\* loop, where the next message is handled.
C3_MalformedIgnored ==
    [][(Delivery /\ Malformed(script, msg'.payload))
        => /\ ~Made(trace', "execute")
           /\ ~Made(trace', "commit")
           /\ ~Made(trace', "rollback")
           /\ db' = db
           /\ pc' = "loop"]_vars

\* C4: when the insert of a well-formed reading fails at conn.cursor(),
\* cursor.execute() or conn.commit(), inserir_leitura calls rollback, the
\* table is as before the message, the transaction holds no row, and the
\* bridge stays in its loop.
C4_FailedInsertRolledBack ==
    [][(Delivery /\ WellFormed(script, msg'.payload) /\ InsertFails(msg'))
        => /\ Made(trace', "rollback")
           /\ Filled' = Filled
           /\ conn'.pending = <<>>
           /\ pc' = "loop"]_vars

\* C4 witness: a row was committed, then the commit of a later reading failed
\* and was rolled back; the bridge is in its loop with the first row alone.
C4_Witness ==
    /\ WellFormed(script, msg.payload)
    /\ msg.fault = "commit"
    /\ ~msg.lost
    /\ Made(trace, "commit")
    /\ Made(trace, "rollback")
    /\ Len(Filled) = 1
    /\ conn.pending = <<>>
    /\ pc = "loop"

\* C5: on_message never raises on account of a message: whenever an
\* exception left on_message, it was a Ctrl+C that arrived during the insert.
C5_OnMessageNeverRaises == branch = "raised" => msg.fault = "interrupt"

\* C6: a delivery adds exactly one row when its payload is well-formed and
\* its insert succeeds, and no row otherwise; no other step changes the
\* number of rows.  So the rows count the well-formed, successfully inserted
\* messages: no deduplication, no batching, no retry.
C6_OneRowPerInsertedMessage ==
    [][IF Delivery /\ WellFormed(script, msg'.payload) /\ InsertSucceeds(msg')
       THEN Len(Filled') = Len(Filled) + 1
       ELSE Len(Filled') = Len(Filled)]_vars

\* C6 witness: the same reading was delivered twice and has two rows, after
\* every message was delivered.
C6_Witness ==
    /\ script = "data_ingestor"
    /\ received = 2
    /\ Len(db.leituras_sensores) = 2
    /\ db.leituras_sensores[1].temperatura = db.leituras_sensores[2].temperatura
    /\ db.leituras_sensores[1].umidade = db.leituras_sensores[2].umidade
    /\ db.leituras_sensores[1].luminosidade = db.leituras_sensores[2].luminosidade

\* C7: the database comes first and decides: once conectar_banco returned
\* None there is no MQTT client, no CONNACK handled, no subscription and no
\* message handled, now or later, and the script is at its end (or at the `if`
\* that ends it); a client exists only with a connection, and every message is
\* handled with the connection conectar_banco opened.
C7_DatabaseBeforeMqtt ==
    /\ (pc # "start" /\ db_conn = "None")
         => /\ pc \in {"main", "done"}
            /\ ~mqtt.client
            /\ mqtt.connects = 0
            /\ mqtt.subs = 0
            /\ received = 0
            /\ userdata = "None"
    /\ mqtt.client => (db_conn = "conn1" /\ userdata = "conn1" /\ conn.id = "conn1")
    /\ pc = "start" => (~mqtt.client /\ conn.state = "none")

\* C7 witness: conectar_banco returned None and the script ended.
C7_Witness ==
    /\ pc = "done"
    /\ exit = "db_failed"
    /\ db_conn = "None"
    /\ ~mqtt.client

\* C8: once client.connect was attempted, the script ends only with the
\* connection closed, by one call of close, the last library call made; and a
\* closed connection means the script has ended, so nothing is inserted on it.
C8_ClosedOnceAtTheEnd ==
    /\ (pc = "done" /\ mqtt.client)
         => /\ conn.state = "closed"
            /\ conn.closes = 1
            /\ Len(trace) > 0
            /\ Last(trace) = "close"
    /\ conn.closes <= 1
    /\ conn.state = "closed" => pc = "done"
    /\ pc = "loop" => conn.closes = 0

\* C8 witness: an exception other than the three the __main__ block catches
\* left the loop, and the connection was closed once.
C8_Witness ==
    /\ pc = "done"
    /\ exit = "UnicodeDecodeError"
    /\ conn.state = "closed"
    /\ conn.closes = 1

\* C9: when the query ran, the frame of buscar_dados holds min(200, rows
\* stored) rows, never more than 200; they are rows of the table, none twice;
\* no row left out is more recent than a row returned; and they run from the
\* oldest data_hora to the newest.
C9_MostRecentChronological ==
    (view.kind # "none" /\ view.query = "ok")
      => LET df == view.df
             tbl == db.leituras_sensores
         IN  /\ Len(df) <= 200
             /\ Len(df) = (IF Len(tbl) < 200 THEN Len(tbl) ELSE 200)
             /\ \A i \in 1..Len(df) : \E k \in 1..Len(tbl) : tbl[k] = df[i]
             /\ \A i, j \in 1..Len(df) : i < j => df[i].id # df[j].id
             /\ \A i \in 1..(Len(df) - 1) : df[i].data_hora <= df[i + 1].data_hora
             /\ \A k \in 1..Len(tbl) :
                  (\A i \in 1..Len(df) : df[i].id # tbl[k].id)
                    => \A i \in 1..Len(df) : tbl[k].data_hora <= df[i].data_hora

\* C9 witness: of 201 stored rows whose data_hora falls as the id rises, the
\* 200 most recent were returned, oldest first: ids 200 down to 1.
C9_Witness ==
    /\ view.kind = "rendered"
    /\ Len(db.leituras_sensores) = 201
    /\ Len(view.df) = 200
    /\ view.df[1].id = 200
    /\ view.df[200].id = 1
    /\ view.df[1].data_hora < view.df[200].data_hora

\* C10: a refresh with no engine, with a query that raised, or on an empty
\* table got the empty frame and returned the placeholders: the three
\* 'Aguardando dados...' figures, the placeholder statistics, no anomaly row,
\* the placeholder card, and ran no model.  A refresh with an engine and a
\* query that returned rows rendered them, whatever the page showed before.
C10_NoDataShowsPlaceholders ==
    view.kind # "none"
      => /\ (view.engine = "None" \/ view.query = "raised" \/ view.stored = 0)
              => /\ view.kind = "placeholder"
                 /\ view.df = <<>>
                 /\ view.figures = "Aguardando dados..."
                 /\ view.tabela_estatisticas = "Aguardando dados..."
                 /\ view.tabela_anomalias = <<>>
                 /\ view.card.text = "Aguardando dados..."
                 /\ view.models = {}
         /\ (view.engine = "engine" /\ view.query = "ok" /\ view.stored > 0)
              => /\ view.kind = "rendered"
                 /\ Len(view.df) > 0
                 /\ view.figures = "series"
                 /\ view.tabela_estatisticas # "Aguardando dados..."
                 /\ view.card.text # "Aguardando dados..."
                 /\ Len(view.normal) + Len(view.tabela_anomalias) = Len(view.df)

\* C10 witness: the page showed the placeholders though rows were stored (no
\* engine, or the query raised), and the next refresh rendered the rows.
C10_Witness ==
    /\ view.kind = "rendered"
    /\ view.after = "placeholder"
    /\ view.stored > 0
    /\ Len(view.df) > 0

\* C11: a step subscribes exactly when it is a connect event with return code
\* 0: such an event makes one call of subscribe (and nothing else), a connect
\* event with another return code makes none, and no other step makes one.
C11_SubscribesOnAcceptedConnect ==
    [][IF mqtt'.connects = mqtt.connects + 1 /\ mqtt'.rc = 0
       THEN /\ mqtt'.subs = mqtt.subs + 1
            /\ trace' = <<"client.subscribe">>
       ELSE /\ mqtt'.subs = mqtt.subs
            /\ ~Made(trace', "client.subscribe")]_vars

\* C11 witness: the broker refused the first connection (no subscription),
\* and the connection the loop made next was accepted and subscribed.
C11_Witness ==
    /\ pc = "loop"
    /\ mqtt.connects = 2
    /\ mqtt.rc = 0
    /\ mqtt.subs = 1
    /\ mqtt.subscribed
    /\ trace = <<"client.subscribe">>

\* C12: psycopg2.connect is called at startup only, and a message delivered
\* after the connection was lost, whatever its payload, writes no row, leaves
\* the connection lost (it is not reopened) and leaves the bridge in its loop.
C12_LostConnectionDropsMessages ==
    [][/\ Made(trace', "psycopg2.connect") => pc = "start"
       /\ (Delivery /\ msg'.lost)
            => /\ db'.leituras_sensores = db.leituras_sensores
               /\ db'.leituras_luminosidade = db.leituras_luminosidade
               /\ ~Made(trace', "psycopg2.connect")
               /\ pc' = "loop"
               /\ conn'.state = "lost"]_vars

\* C13: between two messages the connection is clean.  While the bridge is in
\* its loop no cursor is open and the transaction holds no row; and when
\* inserir_leitura has returned normally, the cursor it opened is closed and
\* its transaction was committed or rolled back.
C13_ConnectionCleanBetweenMessages ==
    /\ pc = "loop" => (conn.cursors = 0 /\ conn.pending = <<>>)
    /\ (branch = "inserted" /\ Made(trace, "cursor"))
         => /\ conn.cursors = 0
            /\ conn.pending = <<>>
            /\ Made(trace, "commit") \/ Made(trace, "rollback")
            /\ Made(trace, "execute") => Last(trace) = "cursor_close"

\* C13 witness: the commit of a reading failed on a sound connection; the
\* row was rolled back, the cursor closed, inserir_leitura returned and the
\* bridge waits for the next message.
C13_Witness ==
    /\ pc = "loop"
    /\ branch = "inserted"
    /\ msg.fault = "commit"
    /\ ~msg.lost
    /\ trace = <<"cursor", "execute", "commit", "rollback", "cursor_close">>
    /\ conn.cursors = 0
    /\ conn.pending = <<>>

\* The ids of the rows of a sequence of rows.
Ids(rows) == {rows[i].id : i \in 1..Len(rows)}

\* C14: in a refresh that found rows every row is flagged -1 or 1; the
\* anomaly table and the 'Anomalia' trace hold the rows flagged -1 and no
\* other, the 'Normal' trace the rows flagged 1 and no other, each once and in
\* the frame's order; and the 'Anomalia' trace is in the charts exactly when a
\* row is flagged -1.
C14_RowsPartitionedByFlag ==
    view.kind = "rendered"
      => LET df == view.df
             anom == {df[i].id : i \in {j \in 1..Len(df) : view.flags[j] = -1}}
             norm == {df[i].id : i \in {j \in 1..Len(df) : view.flags[j] = 1}}
         IN  /\ Len(view.flags) = Len(df)
             /\ \A i \in 1..Len(df) : view.flags[i] \in {-1, 1}
             /\ Ids(view.tabela_anomalias) = anom
             /\ Len(view.tabela_anomalias) = Cardinality(anom)
             /\ view.anomalia = view.tabela_anomalias
             /\ Ids(view.normal) = norm
             /\ Len(view.normal) = Cardinality(norm)
             /\ anom \cap norm = {}
             /\ anom \cup norm = Ids(df)
             /\ \A i \in 1..(Len(view.normal) - 1) :
                  view.normal[i].data_hora <= view.normal[i + 1].data_hora
             /\ \A i \in 1..(Len(view.anomalia) - 1) :
                  view.anomalia[i].data_hora <= view.anomalia[i + 1].data_hora
             /\ view.has_anomalia_trace <=> (anom # {})

\* C14 witness: a refresh of ten rows or more flagged some rows -1 and some
\* 1, and the charts carry the 'Anomalia' trace.
C14_Witness ==
    /\ view.kind = "rendered"
    /\ Len(view.df) >= 10
    /\ \E i \in 1..Len(view.df) : view.flags[i] = -1
    /\ \E i \in 1..Len(view.df) : view.flags[i] = 1
    /\ view.has_anomalia_trace
    /\ Len(view.tabela_anomalias) > 0
    /\ Len(view.normal) > 0

\* C15: the forecast card carries 'Dados insuficientes para prever' exactly
\* when the frame has fewer than 10 rows (so does the call on the empty frame,
\* which no refresh makes); from 10 rows on it carries a forecast of the
\* regression fitted on all the rows, for the index equal to their number.
C15_ForecastFromTenRows ==
    /\ prever_proxima_temperatura(<<>>).text = "Dados insuficientes para prever"
    /\ view.kind = "rendered"
         => /\ (view.card.text = "Dados insuficientes para prever") <=> (Len(view.df) < 10)
            /\ Len(view.df) >= 10
                 => /\ view.card.text = "previsao"
                    /\ view.card.fitted = Len(view.df)
                    /\ view.card.proximo_index = Len(view.df)
                    /\ "LinearRegression" \in view.models
            /\ Len(view.df) < 10 => "LinearRegression" \notin view.models

\* C15 witness: a frame of exactly 10 rows got a forecast for index 10.
C15_Witness ==
    /\ view.kind = "rendered"
    /\ Len(view.df) = 10
    /\ view.card.text = "previsao"
    /\ view.card.proximo_index = 10

\* Row k of the table is among the 200 most recent whatever order the server
\* gives rows of equal data_hora: fewer than 200 other rows are as recent.
AmongMostRecent(tbl, k) ==
    Cardinality({j \in 1..Len(tbl) : j # k /\ tbl[j].data_hora >= tbl[k].data_hora}) < 200

\* C16: interleaved with the bridge's steps in any order, a step that changes
\* the page is a refresh and leaves the tables and the bridge's connection as
\* they were; every row it shows is a committed row of leituras_sensores; no
\* row it shows comes from the last message when that message was ignored or
\* its insert failed; and a successful refresh shows every committed row that
\* is among the 200 most recent.
C16_RefreshShowsCommittedRows ==
    [][view' # view
         => LET tbl == db.leituras_sensores
                df == view'.df
            IN  /\ db' = db
                /\ conn' = conn
                /\ received' = received
                /\ view'.stored = Len(tbl)
                /\ \A i \in 1..Len(df) : \E k \in 1..Len(tbl) : tbl[k] = df[i]
                /\ \A i \in 1..Len(df) : df[i].from \in 1..received
                /\ (received > 0 /\ ~(WellFormed(script, msg.payload) /\ InsertSucceeds(msg)))
                     => \A i \in 1..Len(df) : df[i].from # received
                /\ view'.query = "ok"
                     => \A k \in 1..Len(tbl) :
                          AmongMostRecent(tbl, k) => \E i \in 1..Len(df) : df[i] = tbl[k]]_vars

\* C16 witness: a refresh read between two commits: the page shows the first
\* message's row alone, and the second message's row was committed after it.
C16_Witness ==
    /\ script = "data_ingestor"
    /\ pc = "loop"
    /\ received = 2
    /\ view.kind = "rendered"
    /\ view.stored = 1
    /\ Len(view.df) = 1
    /\ view.df[1].from = 1
    /\ Len(db.leituras_sensores) = 2
    /\ db.leituras_sensores[1] = view.df[1]

====
